---- MODULE Spec2Model ----
(***************************************************************************)
(* A model of phyloRNA's variant tables:                                   *)
(*   inst/vcm.py       the Variant Call Matrix and its variant scheduler,  *)
(*   inst/vff_make.py  the Variant Frequency File of one cell,             *)
(*   inst/vff_merge.py the symbol the merge derives from a VFF row, the    *)
(*                     encoded sequences and the merged table.             *)
(* The behaviours of Spec are the runs of the programs: the run of         *)
(* vcm.py's main over a worker pool (FairSpec adds its fairness), one      *)
(* variant and its pileup taken through the consensus call, the frequency  *)
(* row and the merge's symbol, the encoding of a symbol sequence, and the  *)
(* merge of a folder of per-cell tables.                                   *)
(***************************************************************************)
EXTENDS Integers, Sequences, FiniteSets, TLC

VARIABLES
    vcf,        \* the variant source: the records vcfile.fetch() yields, in order
    bam,        \* the alignment source: 0-based position -> reads fetch returns
    args,       \* the parsed command line of vcm.py (args.chunksize is reassigned)
    pc,         \* position of the main process
    iterpos,    \* variants_iter: how many variants of vcf were consumed
    taskq,      \* pool task queue: chunks not yet taken by a worker
    worker,     \* worker -> the chunk it is processing, or Idle
    results,    \* imap's result cache: chunk index -> result of the chunk
    widx,       \* imap iterator: index of the next chunk to yield
    ntasks,     \* imap iterator: number of chunks of the batch
    pending,    \* lines of the yielded chunk writelines has not written yet
    vcmfile,    \* the output file: its lines, header first
    handed,     \* history: positions of the variants handed to workers, in order
    overtaken,  \* history: some chunk completed before an earlier one of its batch
    cell,       \* the per-cell pipeline of one variant
    isfile,     \* os.path.isfile of the output path (args.output, or the VFF)
    codec,      \* vff_merge.py: a symbol sequence through get_encoded_iterator
    merge       \* vff_merge.py: main over a folder of per-cell tables

vars == <<vcf, bam, args, pc, iterpos, taskq, worker, results, widx, ntasks,
          pending, vcmfile, handed, overtaken, cell, isfile, codec, merge>>

\* the state of vff_merge.py, which vcm.py and vff_make.py leave alone
mergevars == <<codec, merge>>

(***************************************************************************)
(* Bounds of the model.                                                    *)
(***************************************************************************)
MaxVariants == 3    \* variants in the source of a scheduler run
MaxVarchunk == 2    \* largest --varchunk (0 stands for "not given")
MaxChunksize == 2   \* largest --chunksize
MaxThreads == 2     \* largest --nthreads
MaxReads == 3       \* reads in the pileup of the per-cell pipeline
MaxMinCov == 1      \* largest --min_coverage
MaxMinFreq == 1     \* largest --min_frequency
MaxLen == 5         \* longest symbol sequence given to the encoding
MaxCells == 3       \* per-cell tables in the folder given to the merge
MaxRows == 5        \* data rows of a per-cell table in that folder

(***************************************************************************)
(* Values.                                                                 *)
(***************************************************************************)
None == -1                      \* Python's None in an aligned pair
NoBase == "None"                \* Python's None as an observed base (deletion)
Raised == "VariantReadError"    \* the exception, as an outcome
TypeError == "TypeError"        \* the exception of a write of a non-string
Exceptions == {Raised, TypeError}
NoError == ""
Unknown == "N"
Idle == [idx |-> -1, chunk |-> <<>>]
NoVarchunk == 0                 \* args.varchunk is None
DefaultFactor == 4              \* calculate_chunksize(..., factor=4)
DefaultMinMapq == 60
Bases == {"A", "C", "G", "T"}
Barcodes == <<"b1", "b2">>

Digit == <<"0", "1", "2", "3", "4", "5", "6", "7", "8", "9">>

RECURSIVE IntToStr(_)
\* str(n) of a non-negative integer: its decimal digits
IntToStr(n) == IF n < 10 THEN Digit[n + 1]
               ELSE IntToStr(n \div 10) \o Digit[(n % 10) + 1]

\* int(s) of a decimal string
StrToInt(s) == CHOOSE n \in 0..99 : IntToStr(n) = s

Min(S) == CHOOSE x \in S : \A y \in S : x <= y
Max(S) == CHOOSE x \in S : \A y \in S : x >= y

RemoveAt(s, i) == [j \in 1..(Len(s) - 1) |-> IF j < i THEN s[j] ELSE s[j + 1]]

(***************************************************************************)
(* Reads and variants.  A read is what pysam gives for an aligned segment: *)
(* its CB tag ("" when the read has none), its mapping quality, its        *)
(* aligned pairs <<query offset, reference position>> (None where absent)  *)
(* and its query sequence (offset q is element q + 1).                     *)
(***************************************************************************)
NoTag == ""
ReadKinds == Bases \cup {"del", "unaligned"}

\* a read fetched for 0-based `position`: after one inserted base it shows
\* there a base or a deletion, or (kind "unaligned") it is aligned to the
\* next position only
MkRead(cb, mapq, kind, position) ==
    [cb |-> cb, mapq |-> mapq,
     aligned_pairs |->
        IF kind = "del" THEN << <<0, None>>, <<None, position>> >>
        ELSE IF kind = "unaligned" THEN << <<0, None>>, <<1, position + 1>> >>
        ELSE << <<0, None>>, <<1, position>> >>,
     query_sequence |-> IF kind \in Bases THEN <<"A", kind>>
                        ELSE IF kind = "del" THEN <<"A">>
                        ELSE <<"A", "A">>]

Factors == {1, DefaultFactor}     \* values of --factor, given with --adaptive

Filters == {{"PASS"}, {"LowQual"}}

VcfRecord(pos, filter) ==
    [contig |-> "chr1", pos |-> pos, ref |-> "A", alts |-> <<"C">>,
     start |-> pos - 1, stop |-> pos, filter |-> filter]

(***************************************************************************)
(* collections.Counter: a sequence of <<key, count>> in insertion order.   *)
(***************************************************************************)
CounterHas(c, k) == \E i \in DOMAIN c : c[i][1] = k

CounterGet(c, k) == IF CounterHas(c, k)
                    THEN c[CHOOSE i \in DOMAIN c : c[i][1] = k][2]
                    ELSE 0

CounterAdd(c, k) ==
    IF CounterHas(c, k)
    THEN [i \in DOMAIN c |-> IF c[i][1] = k THEN <<k, c[i][2] + 1>> ELSE c[i]]
    ELSE Append(c, <<k, 1>>)

RECURSIVE CounterUpdate(_, _)
CounterUpdate(c, items) ==
    IF items = <<>> THEN c
    ELSE CounterUpdate(CounterAdd(c, Head(items)), Tail(items))

RECURSIVE CounterSum(_)
CounterSum(c) == IF c = <<>> THEN 0 ELSE Head(c)[2] + CounterSum(Tail(c))

\* (mutant of most_common) entries of equal count, the latest inserted first
RECURSIVE MostCommonLatestFirst(_, _)
MostCommonLatestFirst(c, n) ==
    IF n = 0 \/ c = <<>> THEN <<>>
    ELSE LET m == Max({c[i][2] : i \in DOMAIN c})
             i == Max({j \in DOMAIN c : c[j][2] = m})
         IN  <<c[i]>> \o MostCommonLatestFirst(RemoveAt(c, i), n - 1)

\* Counter.most_common(n): the n entries of highest count, entries of equal
\* count in insertion order (a stable sort by count, descending)
RECURSIVE most_common(_, _)
most_common(c, n) ==
    IF n = 0 \/ c = <<>> THEN <<>>
    ELSE LET m == Max({c[i][2] : i \in DOMAIN c})
             i == Min({j \in DOMAIN c : c[j][2] = m})
         IN  <<c[i]>> \o most_common(RemoveAt(c, i), n - 1)

(***************************************************************************)
(* inst/vcm.py: the consensus call.                                        *)
(***************************************************************************)
\* (mutant of passed_filter) every variant passes
PassedAnything(variant) == variant.filter = variant.filter

passed_filter(variant) == "PASS" \in variant.filter

variant2tuple(variant) ==
    [contig |-> variant.contig, pos |-> variant.pos, ref |-> variant.ref,
     start |-> variant.start, stop |-> variant.stop]

read2tuple(read) ==
    [cb |-> read.cb, aligned_pairs |-> read.aligned_pairs,
     query_sequence |-> read.query_sequence]

get_reads_with_barcode(reads, barcode) ==
    SelectSeq(reads, LAMBDA read : read.cb = barcode)

\* sys.stderr.write(x): a string is written; anything else raises TypeError
\* and nothing is written (a text is a tuple that starts with its title)
stderr_write(x) ==
    IF x # <<>> /\ x[1] \in {"Variant", "Read"}
    THEN [error |-> NoError, written |-> <<x>>]
    ELSE [error |-> TypeError, written |-> <<>>]

\* variant_to_text of vcm.py
variant_to_text(variant) ==
    <<"Variant", variant.contig, IntToStr(variant.start), IntToStr(variant.stop),
      IntToStr(variant.pos), variant.ref>>

\* the base of the first aligned pair at `position`; when there is none, the
\* exception that leaves: sys.stderr.write is given the Read tuple itself,
\* and only if that write returned would VariantReadError be raised
get_base(read, position) ==
    LET pairs == read.aligned_pairs
        hits == {i \in DOMAIN pairs : pairs[i][2] = position}
    IN  IF hits = {}
        THEN IF stderr_write(<<read.cb, read.aligned_pairs,
                               read.query_sequence>>).error # NoError
             THEN TypeError
             ELSE Raised
        ELSE LET q == pairs[Min(hits)][1]
             IN  IF q # None THEN read.query_sequence[q + 1] ELSE NoBase

\* (mutant of SkipDeletion) the first rank is returned as it is
TopRanked(mc, unknown) == mc[1][1]

SkipDeletion(mc, unknown) ==
    IF mc[1][1] # NoBase THEN mc[1][1]
    ELSE IF Len(mc) = 1 THEN unknown
    ELSE mc[2][1]

\* what get_most_common_base leaves on stderr: the text of the variant when
\* the exception of the first read that raises is a VariantReadError
get_most_common_base_stderr(reads, variant) ==
    LET bases == [i \in DOMAIN reads |-> get_base(reads[i], variant.start)]
        failed == {i \in DOMAIN bases : bases[i] \in Exceptions}
    IN  IF failed # {} /\ bases[Min(failed)] = Raised
        THEN stderr_write(variant_to_text(variant)).written
        ELSE <<>>

\* the call, or the exception of the first read that raises: `except
\* VariantReadError` re-raises what it caught, any other exception passes it
get_most_common_base(reads, variant, unknown, min_coverage) ==
    LET bases == [i \in DOMAIN reads |-> get_base(reads[i], variant.start)]
        failed == {i \in DOMAIN bases : bases[i] \in Exceptions}
    IN  IF failed # {} THEN bases[Min(failed)]
        ELSE IF Len(bases) < min_coverage THEN unknown
        ELSE LET frequencies == CounterUpdate(<<>>, bases)
             IN  IF frequencies = <<>> THEN unknown
                 ELSE SkipDeletion(most_common(frequencies, 2), unknown)

process_barcode(barcode, reads, variant, min_coverage) ==
    get_most_common_base(get_reads_with_barcode(reads, barcode), variant,
                         Unknown, min_coverage)

vcm_line(variant, bases) ==
    <<variant.contig, IntToStr(variant.pos), variant.ref>> \o bases

vcm_header(barcodes) == <<"Contig", "Position", "Reference">> \o barcodes

\* BAMFILE.fetch and the list of read2tuple of the reads that have a CB tag
\* and the mapping quality
fetch_reads(variant, min_mapq) ==
    LET fetched == bam[variant.start]
        kept == SelectSeq(fetched,
                    LAMBDA read : read.cb # NoTag /\ read.mapq >= min_mapq)
    IN  [i \in DOMAIN kept |-> read2tuple(kept[i])]

\* one variant in a worker: its line, or the failure when a barcode's call
\* raises
process_variant(variant, barcodes, min_coverage, min_mapq) ==
    LET reads == fetch_reads(variant, min_mapq)
        bases == [b \in DOMAIN barcodes |->
                    process_barcode(barcodes[b], reads, variant, min_coverage)]
    IN  IF \E b \in DOMAIN bases : bases[b] \in Exceptions
        THEN [ok |-> FALSE, line |-> <<>>]
        ELSE [ok |-> TRUE, line |-> vcm_line(variant, bases)]

\* calculate_chunksize: divmod, one more when there is a remainder
calculate_chunksize(n_workers, len_iterable, factor) ==
    LET chunksize == len_iterable \div (n_workers * factor)
        extra == len_iterable % (n_workers * factor)
    IN  IF extra # 0 THEN chunksize + 1 ELSE chunksize

(***************************************************************************)
(* inst/vff_make.py: the frequency table of one cell.                      *)
(***************************************************************************)
NoBarcode == ""                         \* barcode=None
HeaderBases == <<"A", "C", "T", "G">>   \* vff_header(bases="ACTG")
LineBases == <<"A", "C", "G", "T">>     \* vff_line(..., bases="ACGT")

vff_get_reads_with_barcode(reads, barcode) ==
    SelectSeq(reads, LAMBDA read : read.cb # NoTag /\ read.cb = barcode)

\* variant_to_text of vff_make.py
vff_variant_to_text(variant) ==
    <<"Variant", variant.contig, IntToStr(variant.start), IntToStr(variant.stop),
      IntToStr(variant.pos), variant.ref>> \o variant.alts

read_to_text(read) == <<"Read", read.aligned_pairs, read.query_sequence>>

\* what get_bases leaves on stderr: the text of a read without the position
get_bases_stderr(read, position) ==
    IF \E i \in DOMAIN read.aligned_pairs : read.aligned_pairs[i][2] = position
    THEN <<>>
    ELSE stderr_write(read_to_text(read)).written

\* get_bases: as vcm.py's get_base, on the read's get_aligned_pairs(); the
\* text of the read is written before VariantReadError is raised
get_bases(read, position) ==
    LET pairs == read.aligned_pairs
        hits == {i \in DOMAIN pairs : pairs[i][2] = position}
    IN  IF hits = {} THEN Raised
        ELSE LET q == pairs[Min(hits)][1]
             IN  IF q # None THEN read.query_sequence[q + 1] ELSE NoBase

empty_counter(bases) == [i \in DOMAIN bases |-> <<bases[i], 0>>]

\* the Counter of the reads' bases over the zeroed alphabet, or the failure
get_base_frequencies_for_variant(reads, variant, bases) ==
    LET read_bases == [i \in DOMAIN reads |-> get_bases(reads[i], variant.start)]
        failed == {i \in DOMAIN read_bases : read_bases[i] \in Exceptions}
    IN  IF failed # {}
        THEN [ok |-> FALSE, frequencies |-> <<>>,
              error |-> read_bases[Min(failed)],
              stderr |-> get_bases_stderr(reads[Min(failed)], variant.start)
                         \o stderr_write(vff_variant_to_text(variant)).written]
        ELSE [ok |-> TRUE,
              frequencies |-> CounterUpdate(empty_counter(bases), read_bases),
              error |-> NoError, stderr |-> <<>>]

vff_base_frequency_string(bases, frequencies) ==
    [i \in DOMAIN bases |-> IntToStr(CounterGet(frequencies, bases[i]))]
    \o <<IntToStr(CounterSum(frequencies))>>

vff_line(variant, frequencies, bases) ==
    <<variant.contig, IntToStr(variant.pos), variant.ref>>
    \o vff_base_frequency_string(bases, frequencies)

vff_header(bases) == <<"Contig", "Position", "Reference">> \o bases \o <<"Total">>

\* `if pass_only and not passed_filter(variant): continue`
Skipped(variant, pass_only) == pass_only /\ ~passed_filter(variant)

\* the loop over the variants: the lines of the file when it ends or raises
RECURSIVE process_variants(_, _, _, _)
process_variants(lines, variants, pass_only, barcode) ==
    IF variants = <<>>
    THEN [ok |-> TRUE, lines |-> lines, error |-> NoError, stderr |-> <<>>]
    ELSE LET variant == Head(variants)
             fetched == bam[variant.start]
             reads == IF barcode # NoBarcode
                      THEN vff_get_reads_with_barcode(fetched, barcode)
                      ELSE fetched
             fr == get_base_frequencies_for_variant(reads, variant, LineBases)
         IN  IF Skipped(variant, pass_only)
             THEN process_variants(lines, Tail(variants), pass_only, barcode)
             ELSE IF ~fr.ok
             THEN [ok |-> FALSE, lines |-> lines, error |-> fr.error,
                   stderr |-> fr.stderr]
             ELSE process_variants(
                      Append(lines, vff_line(variant, fr.frequencies, LineBases)),
                      Tail(variants), pass_only, barcode)

make_vff(variants, pass_only, barcode) ==
    process_variants(<<vff_header(HeaderBases)>>, variants, pass_only, barcode)

(***************************************************************************)
(* inst/vff_merge.py: the symbol of a row and the encoded sequence.        *)
(***************************************************************************)
VFFline == <<"Contig", "Position", "Reference", "A", "C", "T", "G", "Coverage">>

\* VFFline._make(fields); ok is FALSE for the ValueError of a wrong field count
parse_vff_line(line) ==
    IF Len(line) # Len(VFFline)
    THEN [ok |-> FALSE, vffline |-> <<>>]
    ELSE [ok |-> TRUE,
          vffline |-> [f \in {VFFline[i] : i \in DOMAIN VFFline} |->
                          line[CHOOSE i \in DOMAIN VFFline : VFFline[i] = f]]]

ScanOrder == <<"A", "C", "T", "G">>     \* bases = "ACTG"

\* (mutant of get_max_base_freq) the base at the last index of the maximum
GetMaxBaseLast(vffline) ==
    LET bases == ScanOrder
        freqs == [i \in DOMAIN bases |-> StrToInt(vffline[bases[i]])]
        freq == Max({freqs[i] : i \in DOMAIN freqs})
        base == bases[Max({i \in DOMAIN freqs : freqs[i] = freq})]
    IN  <<base, freq>>

\* max(freqs) and the base at its first index in the scan
get_max_base_freq(vffline) ==
    LET bases == ScanOrder
        freqs == [i \in DOMAIN bases |-> StrToInt(vffline[bases[i]])]
        freq == Max({freqs[i] : i \in DOMAIN freqs})
        base == bases[Min({i \in DOMAIN freqs : freqs[i] = freq})]
    IN  <<base, freq>>

\* (mutant of merge_get_base) the thresholds are compared with <
MergeGetBaseStrict(vffline, min_coverage, min_frequency) ==
    LET bf == get_max_base_freq(vffline)
    IN  IF StrToInt(vffline.Coverage) < min_coverage THEN "N"
        ELSE IF bf[2] < min_frequency THEN "N"
        ELSE bf[1]

merge_get_base(vffline, min_coverage, min_frequency) ==
    LET bf == get_max_base_freq(vffline)
    IN  IF StrToInt(vffline.Coverage) <= min_coverage THEN "N"
        ELSE IF bf[2] <= min_frequency THEN "N"
        ELSE bf[1]

Symbols == {"A", "C", "T", "G", "N"}

get_encoding ==
    [x \in Symbols |->
        CASE x = "A" -> <<0, 0, 0>>
          [] x = "C" -> <<0, 0, 1>>
          [] x = "T" -> <<0, 1, 0>>
          [] x = "G" -> <<0, 1, 1>>
          [] x = "N" -> <<1, 0, 0>>]

\* bitarray.encode: the codes of the items, concatenated
RECURSIVE encode(_, _)
encode(encoding, items) ==
    IF items = <<>> THEN <<>>
    ELSE encoding[Head(items)] \o encode(encoding, Tail(items))

IsPrefix(p, s) == Len(p) <= Len(s) /\ SubSeq(s, 1, Len(p)) = p

\* (mutant of iterdecode) the iterator ends at the first N it decodes
RECURSIVE IterdecodeUntilUnknown(_, _)
IterdecodeUntilUnknown(encoding, bits) ==
    IF bits = <<>> THEN <<>>
    ELSE LET x == CHOOSE y \in DOMAIN encoding : IsPrefix(encoding[y], bits)
         IN  IF x = "N" THEN <<>>
             ELSE <<x>> \o IterdecodeUntilUnknown(
                               encoding,
                               SubSeq(bits, Len(encoding[x]) + 1, Len(bits)))

\* bitarray.iterdecode: the symbols whose codes the bits spell, in order
RECURSIVE iterdecode(_, _)
iterdecode(encoding, bits) ==
    IF bits = <<>> THEN <<>>
    ELSE LET x == CHOOSE y \in DOMAIN encoding : IsPrefix(encoding[y], bits)
         IN  <<x>> \o iterdecode(encoding,
                                 SubSeq(bits, Len(encoding[x]) + 1, Len(bits)))

get_encoded_iterator(items) ==
    iterdecode(get_encoding, encode(get_encoding, items))

\* the symbols of the data lines of a VFF, through the encoding; ok is FALSE
\* when a line does not parse
get_sequence_from_vff(vffile, min_coverage, min_frequency) ==
    LET data == IF vffile = <<>> THEN <<>> ELSE Tail(vffile)
        parsed == [i \in DOMAIN data |-> parse_vff_line(data[i])]
    IN  IF \E i \in DOMAIN parsed : ~parsed[i].ok
        THEN [ok |-> FALSE, seq |-> <<>>]
        ELSE [ok |-> TRUE,
              seq |-> get_encoded_iterator(
                        [i \in DOMAIN parsed |->
                            merge_get_base(parsed[i].vffline, min_coverage,
                                           min_frequency)])]

(***************************************************************************)
(* inst/vcm.py: main, over multiprocessing.Pool.imap.                      *)
(***************************************************************************)
Workers == 1..MaxThreads

\* itertools.islice(variants_iter, args.varchunk): the next varchunk variants,
\* all that are left when varchunk is None
islice(source, consumed, varchunk) ==
    LET left == Len(source) - consumed
        n == IF varchunk = NoVarchunk \/ varchunk > left THEN left ELSE varchunk
    IN  SubSeq(source, consumed + 1, consumed + n)

\* (mutant of VcfExhausted) the loop ends on a batch with no passing variant
NothingToDispatch(variants) == SelectSeq(variants, passed_filter) = <<>>

\* `if not variants: break`
VcfExhausted(variants) == variants = <<>>

\* filter(passed_filter, variants) then map(variant2tuple, ...)
Dispatchable(variants) ==
    LET passed == SelectSeq(variants, passed_filter)
    IN  [i \in DOMAIN passed |-> variant2tuple(passed[i])]

\* imap cuts its iterable into consecutive chunks of chunksize items and
\* numbers them from 0
Chunks(items, chunksize) ==
    [k \in 1..((Len(items) + chunksize - 1) \div chunksize) |->
        [idx |-> k - 1,
         chunk |-> SubSeq(items, (k - 1) * chunksize + 1,
                          IF k * chunksize < Len(items) THEN k * chunksize
                          ELSE Len(items))]]

\* (mutant of ChunkResult) a failing variant is skipped, its chunk goes on
ChunkResultIsolated(chunk) ==
    LET res == [i \in DOMAIN chunk |->
                    process_variant(chunk[i], Barcodes, args.min_coverage,
                                    args.min_mapq)]
        good == SelectSeq(res, LAMBDA r : r.ok)
    IN  [ok |-> TRUE, lines |-> [i \in DOMAIN good |-> good[i].line]]

\* a worker maps process_variant over its chunk: the lines of the chunk, or
\* the failure of the chunk when a variant of it raises
ChunkResult(chunk) ==
    LET res == [i \in DOMAIN chunk |->
                    process_variant(chunk[i], Barcodes, args.min_coverage,
                                    args.min_mapq)]
    IN  IF \E i \in DOMAIN res : ~res[i].ok
        THEN [ok |-> FALSE, lines |-> <<>>]
        ELSE [ok |-> TRUE, lines |-> [i \in DOMAIN res |-> res[i].line]]

CellOff ==
    [phase |-> "off", barcode |-> NoBarcode, min_coverage |-> 0,
     min_frequency |-> 0, pass_only |-> FALSE, call |-> "", vffile |-> <<>>,
     raised |-> FALSE, seq |-> <<>>, error |-> NoError, stderr |-> <<>>,
     remake |-> FALSE, made |-> FALSE]

DefaultArgs ==
    [varchunk |-> NoVarchunk, chunksize |-> 1, adaptive |-> FALSE,
     factor |-> DefaultFactor, nthreads |-> 1, min_coverage |-> 0,
     min_mapq |-> DefaultMinMapq, remake |-> FALSE]

CodecOff == [phase |-> "off", items |-> <<>>, decoded |-> <<>>]

MergeOff ==
    [phase |-> "off", folder |-> <<>>, min_coverage |-> 0, min_frequency |-> 0,
     contigs |-> <<>>, positions |-> <<>>, sequences |-> <<>>, row |-> 0,
     out |-> <<>>]

\* (mutant of AlreadyExists) an existing output never stops the run
NeverSkips(remake, exists) == remake /\ ~remake

\* `if not args.remake and os.path.isfile(args.output)`
AlreadyExists(remake, exists) == ~remake /\ exists

\* what the output path may hold before a run: an empty file, a header alone,
\* a table an aborted run left, and a file that is no table
StaleVCM ==
    {<<>>, <<vcm_header(Barcodes)>>,
     <<vcm_header(Barcodes), <<"chr1", "9", "A", "N", "N">> >>,
     << <<"#">> >>}

\* (mutant of Yieldable) any finished chunk is yielded: completion order
YieldableAnyDone == DOMAIN results

\* the chunk imap's iterator may yield next: the one numbered widx, once done
Yieldable == IF widx \in DOMAIN results THEN {widx} ELSE {}

SchedInit ==
    /\ \E n \in 0..MaxVariants :
       \E fs \in [1..n -> Filters], ks \in [1..n -> {"A", "unaligned"}] :
          /\ vcf = [i \in 1..n |-> VcfRecord(i, fs[i])]
          /\ bam = [p \in 0..(n - 1) |->
                        <<MkRead(Barcodes[1], DefaultMinMapq, ks[p + 1], p)>>]
    /\ args \in [varchunk : 0..MaxVarchunk, chunksize : 1..MaxChunksize,
                 adaptive : BOOLEAN, factor : Factors,
                 nthreads : 1..MaxThreads,
                 min_coverage : {0}, min_mapq : {DefaultMinMapq},
                 remake : BOOLEAN]
    /\ args.adaptive \/ args.factor = DefaultFactor
    /\ isfile \in BOOLEAN
    /\ vcmfile \in (IF isfile THEN StaleVCM ELSE {<<>>})
    \* an existing output and --remake are taken with the default scheduling
    /\ (isfile \/ args.remake) =>
          /\ Len(vcf) <= 1
          /\ [args EXCEPT !.remake = FALSE] = DefaultArgs
    /\ pc = "start"
    /\ iterpos = 0
    /\ taskq = <<>>
    /\ worker = [w \in Workers |-> Idle]
    /\ results = <<>>
    /\ widx = 0
    /\ ntasks = 0
    /\ pending = <<>>
    /\ handed = <<>>
    /\ overtaken = FALSE
    /\ cell = CellOff
    /\ codec = CodecOff
    /\ merge = MergeOff

\* the output exists and --remake is not given: main returns
Skip ==
    /\ pc = "start"
    /\ AlreadyExists(args.remake, isfile)
    /\ pc' = "skipped"
    /\ UNCHANGED <<vcf, bam, args, iterpos, taskq, worker, results, widx,
                   ntasks, pending, vcmfile, handed, overtaken, cell, isfile,
                   mergevars>>

\* open the files (the output for writing), start the pool, write the header
Open ==
    /\ pc = "start"
    /\ ~AlreadyExists(args.remake, isfile)
    /\ vcmfile' = <<vcm_header(Barcodes)>>
    /\ isfile' = TRUE
    /\ pc' = "read"
    /\ UNCHANGED <<vcf, bam, args, iterpos, taskq, worker, results, widx,
                   ntasks, pending, handed, overtaken, cell, mergevars>>

\* one turn of `while True` up to pool.imap: read a batch, leave the loop when
\* it is empty, else set the chunk size, filter and queue the chunks
ReadBatch ==
    /\ pc = "read"
    /\ LET variants == islice(vcf, iterpos, args.varchunk)
           chunksize == IF args.adaptive
                        THEN calculate_chunksize(args.nthreads, Len(variants),
                                                 DefaultFactor)
                        ELSE args.chunksize
           tasks == Chunks(Dispatchable(variants), chunksize)
       IN  IF VcfExhausted(variants)
           THEN /\ pc' = "done"
                /\ UNCHANGED <<args, iterpos, taskq, ntasks>>
           ELSE /\ pc' = "write"
                /\ args' = [args EXCEPT !.chunksize = chunksize]
                /\ iterpos' = iterpos + Len(variants)
                /\ taskq' = tasks
                /\ ntasks' = Len(tasks)
    /\ widx' = 0
    /\ results' = <<>>
    /\ UNCHANGED <<vcf, bam, worker, pending, vcmfile, handed, overtaken, cell, isfile,
                   mergevars>>

\* an idle worker takes the next chunk of the queue
WorkerGet(w) ==
    /\ pc = "write"
    /\ w <= args.nthreads
    /\ worker[w] = Idle
    /\ taskq # <<>>
    /\ worker' = [worker EXCEPT ![w] = Head(taskq)]
    /\ taskq' = Tail(taskq)
    /\ handed' = handed \o [i \in DOMAIN Head(taskq).chunk |->
                                Head(taskq).chunk[i].pos]
    /\ UNCHANGED <<vcf, bam, args, pc, iterpos, results, widx, ntasks, pending,
                   vcmfile, overtaken, cell, isfile,
                   mergevars>>

\* a worker finishes its chunk and sends the result back
WorkerDone(w) ==
    /\ pc = "write"
    /\ worker[w] # Idle
    /\ results' = [i \in DOMAIN results \cup {worker[w].idx} |->
                      IF i = worker[w].idx THEN ChunkResult(worker[w].chunk)
                      ELSE results[i]]
    /\ worker' = [worker EXCEPT ![w] = Idle]
    /\ overtaken' = (overtaken \/
                     \E v \in Workers : /\ worker[v] # Idle
                                        /\ worker[v].idx < worker[w].idx)
    /\ UNCHANGED <<vcf, bam, args, pc, iterpos, taskq, widx, ntasks, pending,
                   vcmfile, handed, cell, isfile,
                   mergevars>>

\* writelines asks imap's iterator for the next chunk: its lines, or its
\* failure, which leaves main and ends the pool
YieldChunk ==
    /\ pc = "write"
    /\ pending = <<>>
    /\ \E i \in Yieldable :
          IF results[i].ok
          THEN /\ pending' = results[i].lines
               /\ widx' = widx + 1
               /\ results' = [j \in DOMAIN results \ {i} |-> results[j]]
               /\ UNCHANGED <<pc, taskq, worker>>
          ELSE /\ pc' = "aborted"
               /\ taskq' = <<>>
               /\ worker' = [w \in Workers |-> Idle]
               /\ UNCHANGED <<pending, widx, results>>
    /\ UNCHANGED <<vcf, bam, args, iterpos, ntasks, vcmfile, handed, overtaken,
                   cell, isfile,
                   mergevars>>

\* writelines writes the next line
WriteLine ==
    /\ pc = "write"
    /\ pending # <<>>
    /\ vcmfile' = Append(vcmfile, Head(pending))
    /\ pending' = Tail(pending)
    /\ UNCHANGED <<vcf, bam, args, pc, iterpos, taskq, worker, results, widx,
                   ntasks, handed, overtaken, cell, isfile,
                   mergevars>>

\* the iterator is exhausted: writelines returns, the loop turns
BatchDone ==
    /\ pc = "write"
    /\ pending = <<>>
    /\ widx = ntasks
    /\ pc' = "read"
    /\ UNCHANGED <<vcf, bam, args, iterpos, taskq, worker, results, widx,
                   ntasks, pending, vcmfile, handed, overtaken, cell, isfile,
                   mergevars>>

(***************************************************************************)
(* One variant and its pileup, per cell: vcm.py's call for a barcode, and  *)
(* vff_make.py's table of the variant followed by vff_merge.py's sequence. *)
(***************************************************************************)
ReadPool(position) ==
    {MkRead(Barcodes[1], DefaultMinMapq, k, position) : k \in ReadKinds}
    \cup {MkRead(Barcodes[2], DefaultMinMapq, "C", position),
          MkRead(NoTag, DefaultMinMapq, "G", position),
          MkRead(Barcodes[1], 0, "T", position)}

\* what the path of a VFF may hold before a run: an empty file, a header
\* alone, a table an aborted run left
StaleVFF ==
    {<<>>, <<vff_header(HeaderBases)>>,
     <<vff_header(HeaderBases), <<"chr1", "9", "A", "1", "0", "0", "0", "1">> >>}

CellInit ==
    /\ \E f \in Filters : vcf = <<VcfRecord(1, f)>>
    /\ \E n \in 0..MaxReads : \E reads \in [1..n -> ReadPool(0)] :
          bam = [p \in {0} |-> reads]
    /\ args = DefaultArgs
    /\ isfile \in BOOLEAN
    /\ \E remake \in BOOLEAN, stale \in (IF isfile THEN StaleVFF ELSE {<<>>}) :
          \* an existing table and --remake are taken with pileups of one read
          /\ (isfile \/ remake) => Len(bam[0]) <= 1
          /\ cell = [CellOff EXCEPT !.phase = "fetched", !.remake = remake,
                                    !.vffile = stale]
    /\ pc = "cell"
    /\ iterpos = 0
    /\ taskq = <<>>
    /\ worker = [w \in Workers |-> Idle]
    /\ results = <<>>
    /\ widx = 0
    /\ ntasks = 0
    /\ pending = <<>>
    /\ vcmfile = <<>>
    /\ handed = <<>>
    /\ overtaken = FALSE
    /\ codec = CodecOff
    /\ merge = MergeOff

sched == <<args, pc, iterpos, taskq, worker, results, widx, ntasks, pending,
           vcmfile, handed, overtaken>>

\* vcm.py: process_barcode on the reads process_variant fetched
CallVCM ==
    /\ cell.phase = "fetched"
    /\ \E barcode \in {Barcodes[i] : i \in DOMAIN Barcodes},
          min_coverage \in 0..MaxMinCov :
          LET variant == variant2tuple(vcf[1])
              reads == fetch_reads(variant, args.min_mapq)
              base == process_barcode(barcode, reads, variant, min_coverage)
          IN  cell' = [cell EXCEPT
                         !.phase = "called",
                         !.barcode = barcode,
                         !.min_coverage = min_coverage,
                         !.call = base,
                         !.error = IF base \in Exceptions THEN base ELSE NoError,
                         !.stderr = get_most_common_base_stderr(
                                        get_reads_with_barcode(reads, barcode),
                                        variant)]
    /\ UNCHANGED <<vcf, bam, sched, isfile, mergevars>>

\* vff_make.py: process_barcode for one barcode, or main without barcodes:
\* make_vff unless the table exists and --remake is not given
MakeVFF ==
    /\ cell.phase = "fetched"
    /\ \E barcode \in {NoBarcode, Barcodes[1]}, pass_only \in BOOLEAN :
          LET made == make_vff(vcf, pass_only, barcode)
          IN  IF cell.remake \/ ~isfile
              THEN /\ cell' = [cell EXCEPT
                                 !.phase = "vff",
                                 !.barcode = barcode,
                                 !.pass_only = pass_only,
                                 !.vffile = made.lines,
                                 !.raised = ~made.ok,
                                 !.error = made.error,
                                 !.stderr = made.stderr,
                                 !.made = TRUE]
                   /\ isfile' = TRUE
              ELSE /\ cell' = [cell EXCEPT
                                 !.phase = "vff",
                                 !.barcode = barcode,
                                 !.pass_only = pass_only]
                   /\ isfile' = isfile
    /\ UNCHANGED <<vcf, bam, sched, mergevars>>

\* vff_merge.py: get_sequence_from_vff on the table
MergeVFF ==
    /\ cell.phase = "vff"
    /\ \E min_coverage \in 0..MaxMinCov, min_frequency \in 0..MaxMinFreq :
          LET got == get_sequence_from_vff(cell.vffile, min_coverage,
                                           min_frequency)
          IN  cell' = [cell EXCEPT
                         !.phase = "merged",
                         !.min_coverage = min_coverage,
                         !.min_frequency = min_frequency,
                         !.raised = ~got.ok,
                         !.seq = got.seq]
    /\ UNCHANGED <<vcf, bam, sched, isfile, mergevars>>

(***************************************************************************)
(* inst/vff_merge.py: a symbol sequence through the encoding.              *)
(***************************************************************************)

\* the variables of vcm.py and of the per-cell pipeline where neither runs
NoRun(position) ==
    /\ vcf = <<>>
    /\ bam = <<>>
    /\ args = DefaultArgs
    /\ pc = position
    /\ iterpos = 0
    /\ taskq = <<>>
    /\ worker = [w \in Workers |-> Idle]
    /\ results = <<>>
    /\ widx = 0
    /\ ntasks = 0
    /\ pending = <<>>
    /\ vcmfile = <<>>
    /\ handed = <<>>
    /\ overtaken = FALSE
    /\ cell = CellOff
    /\ isfile = FALSE

SymbolSeqs == UNION {[1..n -> Symbols] : n \in 0..MaxLen}

CodecInit ==
    /\ NoRun("codec")
    /\ \E items \in SymbolSeqs :
          codec = [phase |-> "items", items |-> items, decoded |-> <<>>]
    /\ merge = MergeOff

\* get_encoded_iterator(items), and the list of what the iterator yields
EncodeDecode ==
    /\ codec.phase = "items"
    /\ codec' = [codec EXCEPT !.phase = "decoded",
                              !.decoded = get_encoded_iterator(codec.items)]
    /\ UNCHANGED <<vcf, bam, sched, cell, isfile, merge>>

(***************************************************************************)
(* inst/vff_merge.py: main and write_merged_table over a folder of tables. *)
(***************************************************************************)
\* the base columns A, C, T, G and the coverage of the rows the tables hold
RowCountsPool ==
    << <<"2", "0", "0", "0", "2">>, <<"0", "0", "1", "1", "2">>,
       <<"0", "0", "0", "0", "0">>, <<"0", "1", "0", "0", "1">> >>

\* the i-th data row of the table of the c-th cell
TableRow(c, i) ==
    <<"chr1", IntToStr(i), "A">> \o RowCountsPool[((c + i) % 4) + 1]

\* a table of n data rows under its header
Table(c, n) == <<vff_header(HeaderBases)>> \o [i \in 1..n |-> TableRow(c, i)]

MergeInit ==
    /\ NoRun("merge")
    /\ codec = CodecOff
    /\ \E cells \in 1..MaxCells : \E n \in [1..cells -> 0..MaxRows] :
          merge = [MergeOff EXCEPT
                     !.phase = "files",
                     !.folder = [c \in 1..cells |->
                                    [name |-> IntToStr(c), lines |-> Table(c, n[c])]]]

\* get_contigs_and_positions_from_vff: the two first fields of the data lines
get_contigs_and_positions_from_vff(vffile) ==
    LET data == Tail(vffile)
    IN  [contigs |-> [i \in DOMAIN data |-> parse_vff_line(data[i]).vffline.Contig],
         positions |-> [i \in DOMAIN data |->
                           parse_vff_line(data[i]).vffline.Position]]

\* (mutant of next_symbols) an exhausted sequence gives N while another goes on
NextSymbolsPadded(sequences) ==
    IF \A c \in DOMAIN sequences : sequences[c] = <<>>
    THEN [ok |-> FALSE, symbols |-> <<>>, sequences |-> sequences]
    ELSE [ok |-> TRUE,
          symbols |-> [c \in DOMAIN sequences |->
                          IF sequences[c] = <<>> THEN "N" ELSE Head(sequences[c])],
          sequences |-> [c \in DOMAIN sequences |->
                            IF sequences[c] = <<>> THEN <<>>
                            ELSE Tail(sequences[c])]]

\* [next(sequence) for sequence in sequences]: a symbol of each iterator in
\* turn; at the first exhausted one StopIteration leaves the list unfinished,
\* the iterators before it having advanced
next_symbols(sequences) ==
    LET exhausted == {c \in DOMAIN sequences : sequences[c] = <<>>}
    IN  IF exhausted = {}
        THEN [ok |-> TRUE,
              symbols |-> [c \in DOMAIN sequences |-> Head(sequences[c])],
              sequences |-> [c \in DOMAIN sequences |-> Tail(sequences[c])]]
        ELSE [ok |-> FALSE, symbols |-> <<>>,
              sequences |-> [c \in DOMAIN sequences |->
                                IF c < Min(exhausted) THEN Tail(sequences[c])
                                ELSE sequences[c]]]

\* main up to the loop of write_merged_table: the contigs and positions of
\* the first file, a sequence iterator per file, the header of the output
MergeLoad ==
    /\ merge.phase = "files"
    /\ LET folder == merge.folder
           cp == get_contigs_and_positions_from_vff(folder[1].lines)
           names == [c \in DOMAIN folder |-> folder[c].name]
       IN  merge' = [merge EXCEPT
                       !.phase = "rows",
                       !.contigs = cp.contigs,
                       !.positions = cp.positions,
                       !.sequences =
                           [c \in DOMAIN folder |->
                               get_sequence_from_vff(folder[c].lines,
                                                     merge.min_coverage,
                                                     merge.min_frequency).seq],
                       !.row = 1,
                       !.out = << <<"Contig", "Position">> \o names >>]
    /\ UNCHANGED <<vcf, bam, sched, cell, isfile, codec>>

\* one turn of the loop over zip(contigs, positions): the line is written, or
\* StopIteration breaks the loop
MergeRow ==
    /\ merge.phase = "rows"
    /\ merge.row <= Len(merge.contigs)
    /\ LET got == next_symbols(merge.sequences)
           line == <<merge.contigs[merge.row], merge.positions[merge.row]>>
                   \o got.symbols
       IN  IF got.ok
           THEN merge' = [merge EXCEPT !.sequences = got.sequences,
                                       !.out = Append(merge.out, line),
                                       !.row = merge.row + 1]
           ELSE merge' = [merge EXCEPT !.sequences = got.sequences,
                                       !.phase = "written"]
    /\ UNCHANGED <<vcf, bam, sched, cell, isfile, codec>>

\* zip is exhausted: the loop ends and the file is closed
MergeEnd ==
    /\ merge.phase = "rows"
    /\ merge.row > Len(merge.contigs)
    /\ merge' = [merge EXCEPT !.phase = "written"]
    /\ UNCHANGED <<vcf, bam, sched, cell, isfile, codec>>

Init == SchedInit \/ CellInit \/ CodecInit \/ MergeInit

\* the steps of the main process of vcm.py
MainStep ==
    Skip \/ Open \/ ReadBatch \/ YieldChunk \/ WriteLine \/ BatchDone

SchedNext ==
    \/ MainStep
    \/ \E w \in Workers : WorkerGet(w)
    \/ \E w \in Workers : WorkerDone(w)

CellNext == CallVCM \/ MakeVFF \/ MergeVFF

MergeNext == EncodeDecode \/ MergeLoad \/ MergeRow \/ MergeEnd

Next == SchedNext \/ CellNext \/ MergeNext

Spec == Init /\ [][Next]_vars

\* what a WorkerDone(w) step does to `worker`: the worker leaves its chunk
WorkerFinishes(w) ==
    /\ pc = "write"
    /\ worker[w] # Idle
    /\ worker' = [worker EXCEPT ![w] = Idle]

\* A run of vcm.py in which the main process, blocked only on imap's next
\* result, and the pool's workers keep running while they can: a worker takes
\* a queued chunk when idle and finishes the chunk it holds.
FairSpec ==
    /\ SchedInit
    /\ [][SchedNext]_vars
    /\ WF_vars(MainStep)
    /\ \A w \in Workers : WF_vars(WorkerGet(w)) /\ WF_worker(WorkerFinishes(w))

(***************************************************************************)
(* Properties of the scheduler.                                            *)
(***************************************************************************)
InSched == pc \in {"start", "read", "write", "done", "aborted"}

\* the data rows the run wrote to the output file, and the source index each
\* row names
Rows == IF pc \in {"start", "skipped"} \/ vcmfile = <<>> THEN <<>>
        ELSE Tail(vcmfile)
RowIndex(row) == StrToInt(row[2])

\* what a worker makes of the i-th variant of the source
Outcome(i) == process_variant(variant2tuple(vcf[i]), Barcodes,
                              args.min_coverage, args.min_mapq)
Outcomes == [i \in DOMAIN vcf |-> Outcome(i)]
Passing == {i \in DOMAIN vcf : passed_filter(vcf[i])}
FailingIn(outcomes) == {i \in Passing : ~outcomes[i].ok}
Failing == FailingIn(Outcomes)

\* the lines of the passing variants numbered below `bound`, in source order
LinesBelow(outcomes, bound) ==
    LET written == SelectSeq([i \in DOMAIN vcf |-> i],
                       LAMBDA i : i < bound /\ i \in Passing /\ outcomes[i].ok)
    IN  [k \in DOMAIN written |-> outcomes[written[k]].line]

\* C1: the rows of the output file are in the order in which their variants
\* were read from the source, whatever the order the workers finish in.
C1_RowsInSourceOrder ==
    InSched =>
        \A i, j \in DOMAIN Rows : i < j => RowIndex(Rows[i]) < RowIndex(Rows[j])

\* a finished run of two batches with three rows written, in which a chunk
\* completed before an earlier chunk of its batch
C1_Witness ==
    /\ pc = "done"
    /\ overtaken
    /\ args.varchunk = 2
    /\ Len(Rows) = 3

\* C2: a failing variant aborts the run and is not retried: the rows written
\* are at every moment a prefix of the lines of the passing variants before
\* the first failing one, no variant is handed to a worker twice, and the run
\* never ends normally when a passing variant fails.
C2_FailureAborts ==
    InSched =>
        /\ LET outcomes == Outcomes
               failing == FailingIn(outcomes)
           IN  /\ Rows # <<>> =>
                      IsPrefix(Rows, LinesBelow(outcomes,
                                                Min(failing \cup {Len(vcf) + 1})))
               /\ pc = "done" => failing = {}
        /\ \A i, j \in DOMAIN handed : i # j => handed[i] # handed[j]
        /\ pc = "aborted" => /\ taskq = <<>>
                             /\ \A w \in Workers : worker[w] = Idle

\* an aborted run that wrote a row before the failure, with a passing and
\* processable variant after the failing one
C2_Witness ==
    /\ pc = "aborted"
    /\ Len(Rows) >= 1
    /\ \E i \in Failing : \E j \in Passing \ Failing : j > i

NoFailure == Failing = {}
Completed == pc = "done" /\ Rows = LinesBelow(Outcomes, Len(vcf) + 1)

\* C3: when no variant fails, the run ends, and ends with exactly the lines
\* of the passing variants of the source, one each, in the file.
C3_TerminatesComplete == <>((InSched /\ NoFailure) => Completed)

\* a completed run in batches of one in which a batch held no passing variant
\* and a later batch did
C3_Witness ==
    /\ Completed
    /\ NoFailure
    /\ args.varchunk = 1
    /\ \E i, j \in DOMAIN vcf : i < j /\ i \notin Passing /\ j \in Passing

\* C4: a variant whose filter does not hold "PASS" is never queued for or
\* handed to a worker and has no row in the VCM file, and has no row in the
\* VFF when pass_only is set.
C4_NonPassingDropped ==
    /\ InSched =>
          /\ \A t \in DOMAIN taskq : \A i \in DOMAIN taskq[t].chunk :
                "PASS" \in vcf[taskq[t].chunk[i].pos].filter
          /\ \A w \in Workers : \A i \in DOMAIN worker[w].chunk :
                "PASS" \in vcf[worker[w].chunk[i].pos].filter
          /\ \A i \in DOMAIN handed : "PASS" \in vcf[handed[i]].filter
          /\ \A i \in DOMAIN Rows : "PASS" \in vcf[RowIndex(Rows[i])].filter
    /\ (cell.phase \in {"vff", "merged"} /\ cell.made /\ cell.pass_only) =>
          \A i \in 2..Len(cell.vffile) :
              "PASS" \in vcf[StrToInt(cell.vffile[i][2])].filter

\* a finished run that wrote the rows of the first and the third variant, the
\* second not having passed
C4_Witness ==
    /\ pc = "done"
    /\ Len(vcf) = 3
    /\ "PASS" \notin vcf[2].filter
    /\ Len(Rows) = 2
    /\ Len(handed) = 2

\* ceil(a / b) for positive b
CeilDiv(a, b) == (a + b - 1) \div b

\* the length of the batch being dispatched
BatchLength ==
    IF args.varchunk = NoVarchunk THEN iterpos
    ELSE ((iterpos - 1) % args.varchunk) + 1

\* C8 (as claimed): with --adaptive, the chunk size a batch is dispatched with
\* is ceil(batch length / (nthreads * factor)) for the configured --factor.
C8_AdaptiveUsesFactor ==
    (InSched /\ pc = "write" /\ args.adaptive) =>
        args.chunksize = CeilDiv(BatchLength, args.nthreads * args.factor)

(***************************************************************************)
(* Properties of the consensus call.                                       *)
(***************************************************************************)
\* the reads get_most_common_base was given and the base each resolves to
CalledReads ==
    get_reads_with_barcode(
        fetch_reads(variant2tuple(vcf[1]), args.min_mapq), cell.barcode)
Observed == [i \in DOMAIN CalledReads |-> get_base(CalledReads[i], vcf[1].start)]
Returned == cell.phase = "called" /\ cell.call \notin Exceptions

\* of the values in `among`, those that occur most often in `observed`
MostFrequent(observed, among) ==
    LET times == [v \in among |->
                    Cardinality({i \in DOMAIN observed : observed[i] = v})]
    IN  {v \in among : \A u \in among : times[u] <= times[v]}

\* C5: with at least min_coverage reads, the call is a most frequent value
\* when no deletion is among the most frequent values, a most frequent base
\* among the others when a deletion ranks first and a base was seen, and N
\* when no base was seen; it is never the deletion marker, and is a base or N.
C5_ConsensusCall ==
    Returned =>
        LET observed == Observed
            seen == {observed[i] : i \in DOMAIN observed}
            top == MostFrequent(observed, seen)
        IN  /\ cell.call # NoBase
            /\ cell.call \in Bases \cup {Unknown}
            /\ Len(observed) >= cell.min_coverage =>
                  /\ (seen # {} /\ NoBase \notin top) => cell.call \in top
                  /\ (NoBase \in top /\ seen \cap Bases # {}) =>
                        cell.call \in MostFrequent(observed, seen \cap Bases)
                  /\ seen \cap Bases = {} => cell.call = Unknown

\* a call where deletions outnumber the only base seen, and the base is called
C5_Witness ==
    /\ Returned
    /\ cell.min_coverage >= 1
    /\ Len(Observed) >= cell.min_coverage
    /\ MostFrequent(Observed, {Observed[i] : i \in DOMAIN Observed}) = {NoBase}
    /\ cell.call \in Bases

\* how often, and where first, a value occurs in the observed sequence
Times(observed, v) == Cardinality({i \in DOMAIN observed : observed[i] = v})
FirstSeen(observed, v) == Min({i \in DOMAIN observed : observed[i] = v})
Earliest(observed, among) ==
    CHOOSE v \in among :
        \A u \in among : FirstSeen(observed, v) <= FirstSeen(observed, u)

\* the orders the reads of the call can come in
ReadOrders(n) ==
    {f \in [1..n -> 1..n] : \A i, j \in 1..n : i # j => f[i] # f[j]}
CallOn(reads) ==
    get_most_common_base(reads, variant2tuple(vcf[1]), Unknown,
                         cell.min_coverage)

\* C15: the order of the reads decides the call only through ties: values of
\* equal count rank in the order of their first observation, so the call is
\* the first observed of the bases of highest count, and, when the deletion
\* marker ranks first, the first observed of the bases of the next-highest
\* count; when no two values have the same count, every order of the reads
\* gives the same call.
C15_TiesByFirstObservation ==
    (Returned /\ Len(CalledReads) >= cell.min_coverage) =>
        LET reads == CalledReads
            observed == Observed
            seen == {observed[i] : i \in DOMAIN observed}
            top == MostFrequent(observed, seen)
            ranked == most_common(CounterUpdate(<<>>, observed), 2)
        IN  /\ \A i, j \in DOMAIN ranked :
                  (i < j /\ ranked[i][2] = ranked[j][2]) =>
                      FirstSeen(observed, ranked[i][1])
                          < FirstSeen(observed, ranked[j][1])
            /\ top \cap Bases # {} =>
                  cell.call = Earliest(observed, top \cap Bases)
            /\ (seen # {} /\ ranked[1][1] = NoBase /\ seen \cap Bases # {}) =>
                  cell.call = Earliest(observed,
                                       MostFrequent(observed, seen \cap Bases))
            /\ (\A u, v \in seen : u # v => Times(observed, u) # Times(observed, v))
                  => \A f \in ReadOrders(Len(reads)) :
                         CallOn([i \in DOMAIN reads |-> reads[f[i]]]) = cell.call

\* a deletion, a T and an A, once each and in that order: the deletion ranks
\* first and T, observed before A, is called
C15_Witness ==
    /\ Returned
    /\ Observed = <<NoBase, "T", "A">>
    /\ cell.min_coverage <= 3
    /\ cell.call = "T"

\* some read of `reads` has no aligned pair at `position`
PositionAbsent(reads, position) ==
    \E i \in DOMAIN reads :
        \A k \in DOMAIN reads[i].aligned_pairs :
            reads[i].aligned_pairs[k][2] # position

\* the text that names the variant, on the diagnostic channel
VariantLogged ==
    \E i \in DOMAIN cell.stderr :
        /\ cell.stderr[i][1] = "Variant"
        /\ cell.stderr[i][5] = IntToStr(vcf[1].pos)

\* the reads make_vff tallies for the variant, when it does not skip it
FrequencyReads ==
    IF cell.barcode # NoBarcode
    THEN vff_get_reads_with_barcode(bam[vcf[1].start], cell.barcode)
    ELSE bam[vcf[1].start]

\* C13 (as claimed): when a read of the read set has no aligned pair at the
\* variant's position, in consensus and in frequency mode the failure is
\* VariantReadError, the variant's context is on the diagnostic channel, and
\* no call and no frequency row is produced for the variant.
C13_PositionNotAligned ==
    /\ (/\ cell.phase = "called"
        /\ PositionAbsent(CalledReads, vcf[1].start)) =>
            /\ cell.error = Raised
            /\ VariantLogged
            /\ cell.call \notin Bases \cup {Unknown, NoBase}
    /\ (/\ cell.phase = "vff"
        /\ cell.made
        /\ ~Skipped(vcf[1], cell.pass_only)
        /\ PositionAbsent(FrequencyReads, vcf[1].start)) =>
            /\ cell.error = Raised
            /\ VariantLogged
            /\ Len(cell.vffile) = 1

(***************************************************************************)
(* Properties of the frequency table and of the merge.                     *)
(***************************************************************************)
\* the table holds the row of the variant
HasRow == cell.phase \in {"vff", "merged"} /\ cell.made /\ Len(cell.vffile) = 2
VffRow == cell.vffile[2]
ColumnOf(name) == CHOOSE i \in DOMAIN cell.vffile[1] : cell.vffile[1][i] = name

\* the bases the reads of the table's cell resolve to
TalliedReads ==
    IF cell.barcode # NoBarcode
    THEN vff_get_reads_with_barcode(bam[vcf[1].start], cell.barcode)
    ELSE bam[vcf[1].start]
Tallied(x) ==
    Cardinality({i \in DOMAIN TalliedReads :
                    get_bases(TalliedReads[i], vcf[1].start) = x})

\* C6 (as claimed): the value under header column X of a row is the count
\* tallied for base X, and it is the count the merge reads as X.
C6_ColumnsMatchHeader ==
    HasRow =>
        \A x \in Bases :
            /\ StrToInt(VffRow[ColumnOf(x)]) = Tallied(x)
            /\ StrToInt(parse_vff_line(VffRow).vffline[x]) = Tallied(x)

\* C7 (as claimed): the Total of a row is the sum of its four base counts.
C7_TotalIsSumOfCounts ==
    HasRow =>
        StrToInt(VffRow[8]) = StrToInt(VffRow[4]) + StrToInt(VffRow[5])
                              + StrToInt(VffRow[6]) + StrToInt(VffRow[7])

Merged ==
    cell.phase = "merged" /\ cell.made /\ ~cell.raised /\ Len(cell.vffile) = 2
RowCounts == [x \in Bases |-> StrToInt(VffRow[ColumnOf(x)])]
RowCoverage == StrToInt(VffRow[ColumnOf("Total")])
\* the bases that hold the largest of the counts
Tied(counts) ==
    {x \in DOMAIN counts : \A y \in DOMAIN counts : counts[y] <= counts[x]}

AlphabetRank(x) == CASE x = "A" -> 1 [] x = "C" -> 2 [] x = "G" -> 3 [] x = "T" -> 4
ColumnRank(x) == CASE x = "A" -> 1 [] x = "C" -> 2 [] x = "T" -> 3 [] x = "G" -> 4
Selected == get_max_base_freq(parse_vff_line(VffRow).vffline)[1]
Kept(counts) ==
    /\ RowCoverage > cell.min_coverage
    /\ \E x \in DOMAIN counts : counts[x] > cell.min_frequency

\* C10 (as claimed): of the bases that share the largest count of a row, the
\* merge selects the first by alphabet.
C10_FirstByAlphabet ==
    Merged =>
        LET counts == RowCounts
            selected == Selected
        IN  /\ \A x \in Tied(counts) : AlphabetRank(selected) <= AlphabetRank(x)
            /\ Kept(counts) => cell.seq[1] = selected

\* C10 (amended): of the bases that share the largest count of a row, the
\* merge selects the first in the order of the table's columns, A, C, T, G.
C10_FirstByColumn ==
    Merged =>
        LET counts == RowCounts
            tied == Tied(counts)
            selected == Selected
        IN  /\ selected \in tied
            /\ \A x \in tied : ColumnRank(selected) <= ColumnRank(x)
            /\ Kept(counts) => cell.seq[1] = selected

\* a row in which T and G share the largest count, merged to T
C10_Witness ==
    /\ Merged
    /\ Tied(RowCounts) = {"G", "T"}
    /\ Kept(RowCounts)
    /\ cell.seq = <<"T">>

(***************************************************************************)
(* Properties of the encoding and of the merged table.                     *)
(***************************************************************************)
\* C12: a sequence of symbols of A, C, T, G, N, the empty one included, that
\* is encoded with the 3-bit code and decoded comes back as it was: the same
\* length and the same symbols in the same order; the code is the fixed one.
C12_RoundTrip ==
    /\ get_encoding = [x \in Symbols |->
                          CASE x = "A" -> <<0, 0, 0>> [] x = "C" -> <<0, 0, 1>>
                            [] x = "T" -> <<0, 1, 0>> [] x = "G" -> <<0, 1, 1>>
                            [] x = "N" -> <<1, 0, 0>>]
    /\ codec.phase = "decoded" =>
          /\ Len(codec.decoded) = Len(codec.items)
          /\ \A i \in DOMAIN codec.items : codec.decoded[i] = codec.items[i]
          /\ Len(encode(get_encoding, codec.items)) = 3 * Len(codec.items)

\* a decoded sequence that holds each of the five symbols, N before A
C12_Witness ==
    /\ codec.phase = "decoded"
    /\ codec.items = <<"N", "A", "G", "T", "C">>
    /\ codec.decoded = codec.items

\* the symbol sequence of each table of the folder, and the merged data rows
CellSequences ==
    [c \in DOMAIN merge.folder |->
        [i \in 1..(Len(merge.folder[c].lines) - 1) |->
            merge_get_base(parse_vff_line(merge.folder[c].lines[i + 1]).vffline,
                           merge.min_coverage, merge.min_frequency)]]
MergedRows == Tail(merge.out)
ShortestLength(seqs) == Min({Len(seqs[c]) : c \in DOMAIN seqs})

\* C11: each merged row holds one symbol per cell, row i the i-th symbol of
\* every cell's sequence; a row consumes one symbol of every sequence; the
\* loop stops without an error at the first exhausted sequence, and the
\* table then has exactly as many data rows as the shortest sequence is long.
C11_MergeTruncates ==
    merge.phase \in {"rows", "written"} =>
        LET seqs == CellSequences
            rows == MergedRows
        IN  /\ \A i \in DOMAIN rows :
                  /\ Len(rows[i]) = 2 + Len(seqs)
                  /\ \A c \in DOMAIN seqs :
                        i <= Len(seqs[c]) /\ rows[i][2 + c] = seqs[c][i]
            /\ merge.phase = "rows" =>
                  \A c \in DOMAIN seqs :
                      merge.sequences[c] =
                          SubSeq(seqs[c], Len(rows) + 1, Len(seqs[c]))
            /\ merge.phase = "written" => Len(rows) = ShortestLength(seqs)

\* sequences of lengths 5, 5 and 3 merged into exactly 3 rows
C11_Witness ==
    /\ merge.phase = "written"
    /\ Len(merge.folder) = 3
    /\ Len(CellSequences[1]) = 5
    /\ Len(CellSequences[2]) = 5
    /\ Len(CellSequences[3]) = 3
    /\ Len(MergedRows) = 3
    /\ MergedRows[3] = <<"chr1", "3", CellSequences[1][3], CellSequences[2][3],
                         CellSequences[3][3]>>

(***************************************************************************)
(* Properties of --remake.                                                 *)
(***************************************************************************)
\* C14: without --remake a run that finds its table skips it and leaves the
\* file as it was, whatever it holds; with --remake, or without the file,
\* the table is created anew from its header.  For the VCM and for a VFF.
C14_RemakeOffKeepsFile ==
    [][/\ (pc = "start" /\ ~args.remake /\ isfile) =>
              (pc' = "skipped" /\ vcmfile' = vcmfile /\ isfile')
       /\ pc = "skipped" => (vcmfile' = vcmfile /\ pc' = "skipped")
       /\ (pc = "start" /\ (args.remake \/ ~isfile)) =>
              (vcmfile' = <<vcm_header(Barcodes)>> /\ isfile')
       /\ (cell.phase = "fetched" /\ cell'.phase = "vff") =>
              IF ~cell.remake /\ isfile
              THEN cell'.vffile = cell.vffile /\ isfile' /\ ~cell'.made
              ELSE /\ isfile'
                   /\ cell'.vffile # <<>>
                   /\ cell'.vffile[1] = vff_header(HeaderBases)
                   /\ \A i \in 2..Len(cell'.vffile) :
                         cell'.vffile[i][2] = IntToStr(vcf[1].pos)
      ]_vars

\* a run without --remake that skipped the table an aborted run had left
C14_Witness ==
    /\ pc = "skipped"
    /\ ~args.remake
    /\ vcmfile = <<vcm_header(Barcodes), <<"chr1", "9", "A", "N", "N">> >>
    /\ Len(vcf) = 1

====
